---- MODULE Spec2Model ----
(***************************************************************************)
(* IAM role resource type of endgame/exposure_via_resource_policies/iam.py *)
(*                                                                         *)
(* IAMRole: the trust-policy read (_get_rbp) and write (set_rbp) of one    *)
(* role; IAMRoles: the paginated enumeration of the roles of an account.   *)
(* The provider (boto3 IAM client) is the environment: it holds the trust  *)
(* document of each role and answers each call with a response or an       *)
(* exception.                                                              *)
(***************************************************************************)
EXTENDS Naturals, Sequences, FiniteSets, TLC

VARIABLES
    stored,        \* provider: role name -> trust document, or NoRole
    self,          \* worker -> its IAMRole instance (or NotConstructed)
    response,      \* worker -> the ResponseGetRbp it holds (or NoResponse)
    evil_policy,   \* worker -> the document it computed by injection (or NoPolicy)
    ret,           \* the most recent call and what it returned or raised
    pages,         \* provider: the pages list_roles will deliver
    page_idx,      \* IAMRoles.resources: index of the page being iterated
    role_idx,      \* IAMRoles.resources: index of the role within the page
    resources,     \* IAMRoles.resources: the list built so far
    enum_status    \* "idle" | "running" | "returned" | "raised"

vars == <<stored, self, response, evil_policy, ret,
          pages, page_idx, role_idx, resources, enum_status>>

roleVars == <<stored, self, response, evil_policy, ret>>
enumVars == <<pages, page_idx, role_idx, resources, enum_status>>

----------------------------------------------------------------------------
(* Bounds *)

\* Longest statement list a worker still injects into.
MaxStatements == 2
\* Most role entries list_roles delivers, over all pages.
MaxItems == 3
\* Most pages list_roles delivers.
MaxPages == 2

Workers == {"w1", "w2"}
RoleNames == {"deploy-role", "audit-role"}
\* The roles the account holds at the start; the other names no role.
ExistingRoles == {"deploy-role"}
\* The evil principal each worker was started with.
EvilPrincipal(w) == IF w = "w1" THEN "evil-corp" ELSE "evil-inc"
AccountId == "111122223333"
Region == "us-east-1"

----------------------------------------------------------------------------
(* Python values *)

None == "None"

\* s.startswith(p) on sequences of path tokens
StartsWith(s, p) == Len(s) >= Len(p) /\ SubSeq(s, 1, Len(p)) = p

----------------------------------------------------------------------------
(* Exceptions.  botocore: NoSuchEntityException is a ClientError; a         *)
(* connection failure (EndpointConnectionError) is a BotoCoreError and not  *)
(* a ClientError.                                                           *)

Mro(cls) ==
    CASE cls = "NoSuchEntityException" ->
            {"NoSuchEntityException", "ClientError", "Exception"}
      [] cls = "ClientError" -> {"ClientError", "Exception"}
      [] cls = "EndpointConnectionError" ->
            {"EndpointConnectionError", "BotoCoreError", "Exception"}
      [] cls = "AttributeError" -> {"AttributeError", "Exception"}

IsInstance(exc, cls) == cls \in Mro(exc.cls)

NoSuchEntity == [cls |-> "NoSuchEntityException", text |-> "NoSuchEntity"]
Throttling == [cls |-> "ClientError", text |-> "Throttling"]
AccessDenied == [cls |-> "ClientError", text |-> "AccessDenied"]
MalformedPolicyDocument == [cls |-> "ClientError", text |-> "MalformedPolicyDocument"]
EndpointConnectionError == [cls |-> "EndpointConnectionError", text |-> "EndpointConnectionError"]

\* str(error)
Str(exc) == exc.text

Return(v, level) == [kind |-> "return", value |-> v, log |-> level]
Raise(exc) == [kind |-> "raise", exc |-> exc]

----------------------------------------------------------------------------
(* Policy documents *)

NoRole == [absent |-> TRUE]
NotConstructed == [constructed |-> FALSE]
NoResponse == [none |-> TRUE]
NoPolicy == [none |-> TRUE]
NoCall == [op |-> "none"]

\* constants.get_empty_policy()
EmptyPolicy == [Version |-> "2012-10-17", Statement |-> <<>>]

\* The trust document a role is created with.
InitialStatement ==
    [Effect |-> "Allow", Principal |-> [Service |-> "ec2.amazonaws.com"],
     Action |-> "sts:AssumeRole"]

InitialPolicy == [Version |-> "2012-10-17", Statement |-> <<InitialStatement>>]

\* json.dumps: an object becomes its members in order, a list stays a list
KeyOrder == <<"Effect", "Principal", "Action", "Resource">>

DumpsObject(obj) ==
    LET keys == SelectSeq(KeyOrder, LAMBDA k : k \in DOMAIN obj)
    IN  [i \in 1..Len(keys) |-> <<keys[i], obj[keys[i]]>>]

JsonDumps(policy) ==
    << <<"Version", policy.Version>>,
       <<"Statement", [i \in 1..Len(policy.Statement) |->
                          DumpsObject(policy.Statement[i])]>> >>

\* The provider's parse of the submitted PolicyDocument string.
LoadsObject(members) ==
    [k \in {members[i][1] : i \in 1..Len(members)} |->
        members[CHOOSE i \in 1..Len(members) : members[i][1] = k][2]]

JsonLoads(text) ==
    LET top == LoadsObject(text)
    IN  [Version |-> top["Version"],
         Statement |-> [i \in 1..Len(top["Statement"]) |->
                           LoadsObject(top["Statement"][i])]]

\* Fault variant: the empty policy is passed instead of the fetched one.
PolicyDocument_EmptyPolicy(policy, service, override_action, include_resource_block, override_resource_block, override_account_id_instead_of_principal) ==
    [policy |-> EmptyPolicy,
     service |-> service,
     override_action |-> override_action,
     include_resource_block |-> include_resource_block,
     override_resource_block |-> override_resource_block,
     override_account_id_instead_of_principal |->
         override_account_id_instead_of_principal]

\* PolicyDocument(policy=..., service=..., ...)
PolicyDocument(policy, service, override_action, include_resource_block, override_resource_block, override_account_id_instead_of_principal) ==
    [policy |-> policy,
     service |-> service,
     override_action |-> override_action,
     include_resource_block |-> include_resource_block,
     override_resource_block |-> override_resource_block,
     override_account_id_instead_of_principal |->
         override_account_id_instead_of_principal]

\* The statement granting the evil principal access.
EvilStatement(doc, evil_principal, arn) ==
    LET principal == IF doc.override_account_id_instead_of_principal
                     THEN evil_principal
                     ELSE [AWS |-> evil_principal]
        action == IF doc.override_action # None
                  THEN doc.override_action
                  ELSE doc.service \o ":*"
        base == [Effect |-> "Allow", Principal |-> principal, Action |-> action]
    IN  IF doc.include_resource_block
        THEN base @@ [Resource |-> arn]
        ELSE base

\* Fault variant: the new statement replaces the statement list.
PolicyPlusEvilPrincipal_Replace(doc, evil_principal, arn) ==
    [Version |-> doc.policy.Version,
     Statement |-> <<EvilStatement(doc, evil_principal, arn)>>]

\* Grant injection: the existing statements, then the new one.
PolicyPlusEvilPrincipal(doc, evil_principal, arn) ==
    [Version |-> doc.policy.Version,
     Statement |-> Append(doc.policy.Statement,
                          EvilStatement(doc, evil_principal, arn))]

ResponseGetRbp(policy_document, success) ==
    [policy_document |-> policy_document, success |-> success]

ResponseMessage(message, operation, success, evil_principal, victim_resource_arn, original_policy, updated_policy, resource_type, resource_name, service) ==
    [message |-> message, operation |-> operation, success |-> success,
     evil_principal |-> evil_principal,
     victim_resource_arn |-> victim_resource_arn,
     original_policy |-> original_policy, updated_policy |-> updated_policy,
     resource_type |-> resource_type, resource_name |-> resource_name,
     service |-> service]

----------------------------------------------------------------------------
(* The provider's answers *)

Ok(resp) == [kind |-> "ok", response |-> resp]
Fail(exc) == [kind |-> "error", exc |-> exc]

\* client.get_role(RoleName=name)
GetRoleOutcomes(name) ==
    (IF stored[name] = NoRole
     THEN {Fail(NoSuchEntity)}
     ELSE {Ok([Role |-> [RoleName |-> name,
                         AssumeRolePolicyDocument |-> stored[name]]])})
    \cup {Fail(Throttling), Fail(AccessDenied), Fail(EndpointConnectionError)}

\* client.update_assume_role_policy(RoleName=name, PolicyDocument=...)
UpdateOutcomes(name) ==
    (IF stored[name] = NoRole
     THEN {Fail(NoSuchEntity)}
     ELSE {Ok([ResponseMetadata |-> "200"]), Fail(MalformedPolicyDocument)})
    \cup {Fail(AccessDenied), Fail(EndpointConnectionError)}

\* What the provider stores once the update was answered.
StoredAfterUpdate(request, outcome) ==
    IF outcome.kind = "ok"
    THEN [stored EXCEPT ![request.RoleName] = JsonLoads(request.PolicyDocument)]
    ELSE stored

----------------------------------------------------------------------------
(* IAMRole *)

\* Fault variant: the parent's default include_resource_block is kept.
IAMRoleFields_WithResourceBlock(name, region, current_account_id) ==
    [service |-> "iam",
     resource_type |-> "role",
     region |-> region,
     current_account_id |-> current_account_id,
     name |-> name,
     include_resource_block |-> TRUE,
     override_action |-> "sts:AssumeRole"]

\* IAMRole.__init__, the fields it sets itself
IAMRoleFields(name, region, current_account_id) ==
    [service |-> "iam",
     resource_type |-> "role",
     region |-> region,
     current_account_id |-> current_account_id,
     name |-> name,
     include_resource_block |-> FALSE,
     override_action |-> "sts:AssumeRole"]

\* ResourceType.__init__, the fields the parent adds
ResourceTypeFields(fields) ==
    fields @@ [override_resource_block |-> None,
               override_account_id_instead_of_principal |-> FALSE]

\* IAMRole.arn
Arn(s) ==
    "arn:aws:" \o s.service \o "::" \o s.current_account_id \o ":"
        \o s.resource_type \o "/" \o s.name

\* Fault variant: the not-found handler reports success.
GetRbpPolicy_NotFoundSuccess(outcome) ==
    IF outcome.kind = "ok"
    THEN [policy |-> outcome.response.Role.AssumeRolePolicyDocument,
          success |-> TRUE, log |-> "debug"]
    ELSE IF IsInstance(outcome.exc, "NoSuchEntityException")
    THEN [policy |-> EmptyPolicy, success |-> TRUE, log |-> "critical"]
    ELSE [policy |-> EmptyPolicy, success |-> FALSE, log |-> "debug"]

\* Fault variant: the document of the response is dropped.
GetRbpPolicy_OkEmpty(outcome) ==
    IF outcome.kind = "ok"
    THEN [policy |-> EmptyPolicy, success |-> TRUE, log |-> "debug"]
    ELSE IF IsInstance(outcome.exc, "NoSuchEntityException")
    THEN [policy |-> EmptyPolicy, success |-> FALSE, log |-> "critical"]
    ELSE [policy |-> EmptyPolicy, success |-> FALSE, log |-> "debug"]

\* The policy _get_rbp hands to PolicyDocument, and its success flag
GetRbpPolicy(outcome) ==
    IF outcome.kind = "ok"
    THEN [policy |-> outcome.response.Role.AssumeRolePolicyDocument,
          success |-> TRUE, log |-> "debug"]
    ELSE IF IsInstance(outcome.exc, "NoSuchEntityException")
    THEN [policy |-> EmptyPolicy, success |-> FALSE, log |-> "critical"]
    ELSE [policy |-> EmptyPolicy, success |-> FALSE, log |-> "debug"]

\* Whether _get_rbp's try statement lets the exception through
GetRbpRaises(outcome) ==
    /\ outcome.kind = "error"
    /\ ~IsInstance(outcome.exc, "NoSuchEntityException")
    /\ ~IsInstance(outcome.exc, "ClientError")

\* IAMRole._get_rbp
GetRbp(s, outcome) ==
    IF GetRbpRaises(outcome)
    THEN Raise(outcome.exc)
    ELSE LET got == GetRbpPolicy(outcome)
             policy_document ==
                 PolicyDocument(got.policy, s.service, s.override_action,
                                s.include_resource_block,
                                s.override_resource_block,
                                s.override_account_id_instead_of_principal)
         IN  Return(ResponseGetRbp(policy_document, got.success), got.log)

\* Whether set_rbp's try statement lets the exception through
SetRbpRaises(outcome) ==
    /\ outcome.kind = "error"
    /\ ~IsInstance(outcome.exc, "ClientError")

\* Fault variant: original_policy and updated_policy are swapped.
SetRbpMessage_Swapped(s, evil, outcome) ==
    LET ok == outcome.kind = "ok"
    IN  ResponseMessage(IF ok THEN "success" ELSE Str(outcome.exc),
                        "set_rbp", ok, "", Arn(s), evil, s.original_policy,
                        s.resource_type, s.name, s.service)

\* The ResponseMessage set_rbp builds
SetRbpMessage(s, evil, outcome) ==
    LET ok == outcome.kind = "ok"
    IN  ResponseMessage(IF ok THEN "success" ELSE Str(outcome.exc),
                        "set_rbp", ok, "", Arn(s), s.original_policy, evil,
                        s.resource_type, s.name, s.service)

\* Fault variant: the original policy is sent instead of the new one.
SetRbpRequest_Original(s, evil) ==
    [RoleName |-> s.name, PolicyDocument |-> JsonDumps(s.original_policy)]

\* What set_rbp sends: update_assume_role_policy(RoleName=self.name,
\* PolicyDocument=json.dumps(evil_policy))
SetRbpRequest(s, evil) ==
    [RoleName |-> s.name, PolicyDocument |-> JsonDumps(evil)]

\* IAMRole.set_rbp
SetRbp(s, evil, outcome) ==
    IF SetRbpRaises(outcome)
    THEN Raise(outcome.exc)
    ELSE Return(SetRbpMessage(s, evil, outcome),
                IF outcome.kind = "ok" THEN "debug" ELSE "critical")

----------------------------------------------------------------------------
(* Workers: each constructs an IAMRole, reads, injects and writes *)

NameOf(w) == self[w].name

\* IAMRole(name, region, client, current_account_id): the fields, then the
\* parent's constructor, which reads the policy and keeps it.
Construct(w) ==
    /\ self[w] = NotConstructed
    /\ \E name \in RoleNames : \E outcome \in GetRoleOutcomes(name) :
         LET fields == ResourceTypeFields(IAMRoleFields(name, Region, AccountId))
             r == GetRbp(fields, outcome)
         IN  /\ ret' = [op |-> "__init__", w |-> w, name |-> name,
                        outcome |-> outcome, result |-> r]
             /\ IF r.kind = "return"
                THEN /\ self' = [self EXCEPT ![w] =
                            fields @@ [constructed |-> TRUE,
                                       original_policy |->
                                           r.value.policy_document.policy]]
                     /\ response' = [response EXCEPT ![w] = r.value]
                ELSE UNCHANGED <<self, response>>
    /\ UNCHANGED <<stored, evil_policy>>
    /\ UNCHANGED enumVars

\* role._get_rbp()
CallGetRbp(w) ==
    /\ self[w] # NotConstructed
    /\ \E outcome \in GetRoleOutcomes(NameOf(w)) :
         LET r == GetRbp(self[w], outcome)
         IN  /\ ret' = [op |-> "get_rbp", w |-> w, name |-> NameOf(w),
                        outcome |-> outcome, result |-> r]
             /\ IF r.kind = "return"
                THEN /\ response' = [response EXCEPT ![w] = r.value]
                     /\ evil_policy' = [evil_policy EXCEPT ![w] = NoPolicy]
                ELSE UNCHANGED <<response, evil_policy>>
    /\ UNCHANGED <<stored, self>>
    /\ UNCHANGED enumVars

\* The caller injects a grant into the document it holds.
Inject(w) ==
    /\ self[w] # NotConstructed
    /\ response[w] # NoResponse
    /\ Len(response[w].policy_document.policy.Statement) < MaxStatements
    /\ LET evil == EvilPrincipal(w)
             doc == response[w].policy_document
             new == PolicyPlusEvilPrincipal(doc, evil, Arn(self[w]))
         IN  /\ evil_policy' = [evil_policy EXCEPT ![w] = new]
             /\ ret' = [op |-> "inject", w |-> w, name |-> NameOf(w),
                        evil |-> evil, doc |-> doc, result |-> new]
    /\ UNCHANGED <<stored, self, response>>
    /\ UNCHANGED enumVars

\* role.set_rbp(evil_policy)
CallSetRbp(w) ==
    /\ self[w] # NotConstructed
    /\ evil_policy[w] # NoPolicy
    /\ \E outcome \in UpdateOutcomes(NameOf(w)) :
         LET r == SetRbp(self[w], evil_policy[w], outcome)
         IN  /\ stored' = StoredAfterUpdate(SetRbpRequest(self[w], evil_policy[w]),
                                            outcome)
             /\ ret' = [op |-> "set_rbp", w |-> w, name |-> NameOf(w),
                        evil_policy |-> evil_policy[w],
                        outcome |-> outcome, result |-> r]
    /\ UNCHANGED <<self, response, evil_policy>>
    /\ UNCHANGED enumVars

\* The role is deleted at the provider.
DeleteRole(name) ==
    /\ stored[name] # NoRole
    /\ stored' = [stored EXCEPT ![name] = NoRole]
    /\ ret' = [op |-> "delete_role", name |-> name]
    /\ UNCHANGED <<self, response, evil_policy>>
    /\ UNCHANGED enumVars

InitEnumIdle ==
    /\ pages = <<>>
    /\ page_idx = 1
    /\ role_idx = 1
    /\ resources = <<>>
    /\ enum_status = "idle"

InitRoles ==
    /\ stored = [r \in RoleNames |->
                    IF r \in ExistingRoles THEN InitialPolicy ELSE NoRole]
    /\ self = [w \in Workers |-> NotConstructed]
    /\ response = [w \in Workers |-> NoResponse]
    /\ evil_policy = [w \in Workers |-> NoPolicy]
    /\ ret = NoCall

Init == InitRoles /\ InitEnumIdle

Next ==
    \/ \E w \in Workers : Construct(w)
    \/ \E w \in Workers : CallGetRbp(w)
    \/ \E w \in Workers : Inject(w)
    \/ \E w \in Workers : CallSetRbp(w)
    \/ \E name \in RoleNames : DeleteRole(name)

Spec == Init /\ [][Next]_vars

----------------------------------------------------------------------------
(* IAMRoles.resources: the enumeration over the pages of list_roles *)

\* Paths as token sequences, so that startswith is a prefix test.
RootPath == <<"/">>
ServiceLinkedPath == <<"/", "aws-service-role", "/", "org-linked", "/">>
ServiceRolePath == <<"/", "service-role", "/">>
LookalikePath == <<"/", "aws-service-role-x", "/">>
Paths == {RootPath, ServiceLinkedPath, ServiceRolePath, LookalikePath}

\* "/aws-service-role/"
ServiceLinkedPrefix == <<"/", "aws-service-role", "/">>

RoleArn == "arn:aws:iam::" \o AccountId \o ":role/deploy-role"

\* The role descriptors list_roles may deliver: well-formed ones, one
\* without "Path" and one without "Arn".
RoleEntries ==
    {[Path |-> p, Arn |-> RoleArn, RoleName |-> "deploy-role"] : p \in Paths}
    \cup {[Arn |-> RoleArn, RoleName |-> "deploy-role"],
          [Path |-> RootPath, RoleName |-> "deploy-role"]}

SeqsUpTo(S, n) == UNION {[1..k -> S] : k \in 0..n}

\* The pages a listing `flat` is delivered in, cut after the positions c.
PagesOf(flat, c) ==
    LET n == Len(c) + 1
        lo(i) == IF i = 1 THEN 0 ELSE c[i - 1]
        hi(i) == IF i = n THEN Len(flat) ELSE c[i]
    IN  [i \in 1..n |-> [Roles |-> SubSeq(flat, lo(i) + 1, hi(i))]]

Listings ==
    {PagesOf(flat, c) :
        <<flat, c>> \in
            {fc \in SeqsUpTo(RoleEntries, MaxItems)
                      \X SeqsUpTo(0..MaxItems, MaxPages - 1) :
                /\ \A i \in 1..Len(fc[2]) : fc[2][i] <= Len(fc[1])
                /\ \A i \in 1..(Len(fc[2]) - 1) : fc[2][i] <= fc[2][i + 1]}}

\* dict.get(key)
DictGet(d, key) == IF key \in DOMAIN d THEN d[key] ELSE None

ListResourcesResponse(service, account_id, arn, region, resource_type, name) ==
    [service |-> service, account_id |-> account_id, arn |-> arn,
     region |-> region, resource_type |-> resource_type, name |-> name]

\* IAMRoles.__init__
IAMRolesFields(current_account_id, region) ==
    [service |-> "iam", resource_type |-> "role",
     current_account_id |-> current_account_id, region |-> region]

\* Fault variant: the commented-out, stricter filter.
IsServiceLinked_Strict(path) ==
    path = ServiceRolePath \/ StartsWith(path, ServiceLinkedPrefix)

\* The special case: path.startswith("/aws-service-role/")
IsServiceLinked(path) == StartsWith(path, ServiceLinkedPrefix)

\* One iteration of `for role in roles`: role.get("Path") is None exactly
\* when the key is missing, and None has no startswith.
VisitRole(s, role, acc) ==
    IF "Path" \notin DOMAIN role
    THEN Raise([cls |-> "AttributeError", text |-> "startswith"])
    ELSE IF IsServiceLinked(role["Path"])
    THEN Return(acc, "none")
    ELSE Return(Append(acc,
                    ListResourcesResponse(s.service, s.current_account_id,
                                          DictGet(role, "Arn"), s.region,
                                          s.resource_type,
                                          DictGet(role, "RoleName"))),
                "none")

\* resources = []; paginator.paginate()
StartEnum ==
    /\ enum_status # "running"
    /\ enum_status' = "running"
    /\ page_idx' = 1
    /\ role_idx' = 1
    /\ resources' = <<>>
    /\ UNCHANGED pages
    /\ UNCHANGED roleVars

\* for role in roles: ...
EnumRole ==
    /\ enum_status = "running"
    /\ page_idx <= Len(pages)
    /\ role_idx <= Len(pages[page_idx]["Roles"])
    /\ LET r == VisitRole(IAMRolesFields(AccountId, Region),
                          pages[page_idx]["Roles"][role_idx], resources)
       IN  IF r.kind = "raise"
           THEN /\ enum_status' = "raised"
                /\ UNCHANGED <<page_idx, role_idx, resources>>
           ELSE /\ resources' = r.value
                /\ role_idx' = role_idx + 1
                /\ UNCHANGED <<page_idx, enum_status>>
    /\ UNCHANGED pages
    /\ UNCHANGED roleVars

\* for page in page_iterator: the next page
EnumNextPage ==
    /\ enum_status = "running"
    /\ page_idx <= Len(pages)
    /\ role_idx > Len(pages[page_idx]["Roles"])
    /\ page_idx' = page_idx + 1
    /\ role_idx' = 1
    /\ UNCHANGED <<pages, resources, enum_status>>
    /\ UNCHANGED roleVars

\* return resources
EnumReturn ==
    /\ enum_status = "running"
    /\ page_idx > Len(pages)
    /\ enum_status' = "returned"
    /\ UNCHANGED <<pages, page_idx, role_idx, resources>>
    /\ UNCHANGED roleVars

InitEnum ==
    /\ InitRoles
    /\ pages \in Listings
    /\ page_idx = 1
    /\ role_idx = 1
    /\ resources = <<>>
    /\ enum_status = "idle"

NextEnum ==
    \/ StartEnum
    \/ EnumRole
    \/ EnumNextPage
    \/ EnumReturn

SpecEnum == InitEnum /\ [][NextEnum]_vars

----------------------------------------------------------------------------
(* Properties *)

Last(q) == q[Len(q)]
Front(q) == SubSeq(q, 1, Len(q) - 1)
IsPrefix(p, q) == Len(p) <= Len(q) /\ SubSeq(q, 1, Len(p)) = p

IsGetCall(r) == r.op \in {"get_rbp", "__init__"}

C2_TrustStyleFlags ==
    /\ \A w \in Workers :
         self[w] # NotConstructed =>
            /\ self[w].include_resource_block = FALSE
            /\ self[w].override_action = "sts:AssumeRole"
            /\ response[w] # NoResponse =>
                  /\ response[w].policy_document.include_resource_block = FALSE
                  /\ response[w].policy_document.override_action = "sts:AssumeRole"
            /\ evil_policy[w] # NoPolicy =>
                  /\ "Resource" \notin DOMAIN Last(evil_policy[w].Statement)
                  /\ Last(evil_policy[w].Statement).Action = "sts:AssumeRole"
    /\ (IsGetCall(ret) /\ ret.result.kind = "return") =>
          /\ ret.result.value.policy_document.include_resource_block = FALSE
          /\ ret.result.value.policy_document.override_action = "sts:AssumeRole"

C2_Witness ==
    /\ ret.op = "set_rbp"
    /\ ret.outcome.kind = "ok"
    /\ response[ret.w].success
    /\ Len(evil_policy[ret.w].Statement) = 2
    /\ Last(stored[ret.name].Statement).Action = "sts:AssumeRole"

\* C3: _get_rbp on a role the provider does not hold returns (it does not
\* raise) a ResponseGetRbp with success = false and the empty document.
C3_NotFoundGivesEmpty ==
    (IsGetCall(ret) /\ ret.outcome = Fail(NoSuchEntity)) =>
        /\ ret.result.kind = "return"
        /\ ret.result.value.success = FALSE
        /\ ret.result.value.policy_document.policy = EmptyPolicy
        /\ DOMAIN ret.result.value.policy_document.policy = {"Version", "Statement"}

\* The role existed when the instance was built and was deleted before the read.
C3_Witness ==
    /\ ret.op = "get_rbp"
    /\ ret.outcome = Fail(NoSuchEntity)
    /\ ret.name \in ExistingRoles
    /\ self[ret.w].original_policy = InitialPolicy

\* C4: for every answer of get_role other than not-found, _get_rbp returns
\* rather than raises, and on every failure the result is the empty
\* document with success = false.
C4_EveryFailureGivesEmpty ==
    (ret.op = "get_rbp" /\ ret.outcome # Fail(NoSuchEntity)) =>
        /\ ret.result.kind = "return"
        /\ ret.outcome.kind = "error" =>
              /\ ret.result.value.success = FALSE
              /\ ret.result.value.policy_document.policy = EmptyPolicy

\* C5: every set_rbp call returns a ResponseMessage: success with the
\* message "success" exactly when the provider accepts the write, failure
\* with the provider's error text otherwise.
C5_SetAlwaysReturns ==
    ret.op = "set_rbp" =>
        /\ ret.result.kind = "return"
        /\ ret.result.value.success = (ret.outcome.kind = "ok")
        /\ ret.outcome.kind = "ok" => ret.result.value.message = "success"
        /\ ret.outcome.kind = "error" =>
              ret.result.value.message = Str(ret.outcome.exc)

\* C6: the ResponseMessage of set_rbp carries both policies, on success and
\* on failure: updated_policy is the document passed, original_policy is
\* the instance's original policy (a policy document), and set_rbp leaves
\* the instance unchanged.
C6_BothPoliciesCarried ==
    [][ret'.op = "set_rbp" =>
          /\ self' = self
          /\ ret'.result.kind = "return" =>
                LET msg == ret'.result.value
                IN  /\ msg.updated_policy = evil_policy[ret'.w]
                    /\ msg.original_policy = self[ret'.w].original_policy
                    /\ DOMAIN msg.original_policy = {"Version", "Statement"}
                    /\ DOMAIN msg.updated_policy = {"Version", "Statement"}]_vars

C6_Witness ==
    /\ ret.op = "set_rbp"
    /\ ret.result.kind = "return"
    /\ ret.result.value.success = FALSE
    /\ ret.result.value.message = "MalformedPolicyDocument"
    /\ ret.result.value.original_policy = InitialPolicy
    /\ Len(ret.result.value.updated_policy.Statement) = 2

RECURSIVE FlattenPages(_)
FlattenPages(pp) ==
    IF pp = <<>> THEN <<>> ELSE Head(pp)["Roles"] \o FlattenPages(Tail(pp))

\* The entries the loop has gone through so far.
Visited ==
    LET done == Len(pages) < page_idx
    IN  IF done
        THEN FlattenPages(pages)
        ELSE FlattenPages(SubSeq(pages, 1, page_idx - 1))
                \o SubSeq(pages[page_idx]["Roles"], 1, role_idx - 1)

\* The listed entries that are not service-linked, in their order.
RECURSIVE Listed(_)
Listed(flat) ==
    IF flat = <<>>
    THEN <<>>
    ELSE LET role == Head(flat)
         IN  IF StartsWith(role["Path"], <<"/", "aws-service-role", "/">>)
             THEN Listed(Tail(flat))
             ELSE <<[service |-> "iam", account_id |-> AccountId,
                     arn |-> DictGet(role, "Arn"), region |-> Region,
                     resource_type |-> "role",
                     name |-> DictGet(role, "RoleName")]>>
                  \o Listed(Tail(flat))

WellFormed(role) == DOMAIN role = {"Path", "Arn", "RoleName"}

\* C7: the enumeration returns the concatenation, in page order, of the
\* entries whose path does not start with "/aws-service-role/", each once;
\* the result depends on the listing only, not on the page boundaries.
C7_EnumerationExact ==
    /\ enum_status \in {"running", "returned"} => resources = Listed(Visited)
    /\ enum_status = "returned" => resources = Listed(FlattenPages(pages))

C7_Witness ==
    /\ enum_status = "returned"
    /\ Len(pages) = 2
    /\ Len(pages[1]["Roles"]) >= 1
    /\ Len(pages[2]["Roles"]) >= 1
    /\ \E i \in 1..Len(FlattenPages(pages)) :
          FlattenPages(pages)[i]["Path"] = ServiceLinkedPath
    /\ \E i \in 1..Len(FlattenPages(pages)) :
          FlattenPages(pages)[i]["Path"] = RootPath
    /\ Len(resources) < Len(FlattenPages(pages))
    /\ Len(resources) >= 1

\* C8: a malformed entry never fails the enumeration: it alone is omitted
\* and every well-formed entry is still returned.
C8_MalformedEntrySkipped ==
    /\ enum_status # "raised"
    /\ enum_status = "returned" =>
          resources = Listed(SelectSeq(FlattenPages(pages), WellFormed))

====
